---- MODULE Spec2Model ----
(***************************************************************************)
(* A state-machine model of run-recipe.py: one invocation of main() after  *)
(* another, each walking from argument parsing through node resolution,    *)
(* the build / download / run phases and the launch of launch-cluster.sh.  *)
(*                                                                         *)
(* Text is modelled as a sequence of tokens: a token is one character      *)
(* (",", " ", "=", a quote, "#") or one atomic word (a node address such   *)
(* as "h", a key such as "CLUSTER_NODES").  External programs (docker,     *)
(* ssh, the build, download, discovery and launch scripts) and the user's  *)
(* answers to input() are inputs: each call draws its outcome from a small *)
(* set when it happens, and is recorded in `calls`.                        *)
(***************************************************************************)
EXTENDS Integers, Sequences, FiniteSets, TLC

VARIABLES
    run,            \* number of the current invocation of main(), from 1
    args,           \* argparse namespace of the current invocation
    pc,             \* position of main() in its code
    exit_code,      \* status given to sys.exit(); read only when pc = "done"
    recipe,         \* the loaded recipe dictionary (NoRecipe before load)
    nodes,          \* main's local `nodes`
    nodes_from_env, \* main's local `nodes_from_env`
    disc,           \* run_autodiscover: its caller, working env, selection
    envFile,        \* the .env cache file on disk
    tempFile,       \* the temporary launch script: "none", "exists", "removed"
    script,         \* script_content produced by generate_launch_script
    pending,        \* what main does once the finally block has run
    calls,          \* external actions of this invocation, in order
    prev_build,     \* the invocation before this one ran its build phase
    parsed,         \* load_recipe's local `recipe`: what yaml.safe_load gave
    probe           \* arguments and results of a function applied on its own

vars == <<run, args, pc, exit_code, recipe, nodes, nodes_from_env, disc,
          envFile, tempFile, script, pending, calls, prev_build, parsed,
          probe>>

\* Number of invocations of main() run in succession.
MaxRuns == 2

----------------------------------------------------------------------------
(* Text helpers: Python's str.split, str.strip, str.partition, str.join.   *)

None == [some |-> FALSE, s |-> <<>>]
Some(s) == [some |-> TRUE, s |-> s]

\* Python truthiness of an Optional[str].
Truthy(o) == o.some /\ o.s # <<>>

RECURSIVE SplitAcc(_, _, _, _)
SplitAcc(s, sep, cur, acc) ==
    IF s = <<>> THEN Append(acc, cur)
    ELSE IF Head(s) = sep
         THEN SplitAcc(Tail(s), sep, <<>>, Append(acc, cur))
         ELSE SplitAcc(Tail(s), sep, Append(cur, Head(s)), acc)

Split(s, sep) == SplitAcc(s, sep, <<>>, <<>>)

RECURSIVE LStrip(_, _)
LStrip(s, cs) ==
    IF s # <<>> /\ Head(s) \in cs THEN LStrip(Tail(s), cs) ELSE s

RECURSIVE RStrip(_, _)
RStrip(s, cs) ==
    IF s # <<>> /\ s[Len(s)] \in cs
    THEN RStrip(SubSeq(s, 1, Len(s) - 1), cs) ELSE s

\* The strip that leaves the right end alone.
StripSet_left_only(s, cs) == LStrip(s, cs)

StripSet(s, cs) == RStrip(LStrip(s, cs), cs)

Whitespace == {" "}

Strip(s) == StripSet(s, Whitespace)

Contains(s, c) == \E i \in 1..Len(s) : s[i] = c

RECURSIVE IndexOf(_, _, _)
IndexOf(s, c, i) ==
    IF i > Len(s) THEN 0 ELSE IF s[i] = c THEN i ELSE IndexOf(s, c, i + 1)

\* str.partition(c): <<before, after>> around the first c.
Partition(s, c) ==
    LET i == IndexOf(s, c, 1)
    IN  IF i = 0 THEN <<s, <<>>>>
        ELSE <<SubSeq(s, 1, i - 1), SubSeq(s, i + 1, Len(s))>>

\* The join that keeps the first element only.
Join_first(list, sep) == IF list = <<>> THEN <<>> ELSE list[1]

RECURSIVE Join(_, _)
Join(list, sep) ==
    IF list = <<>> THEN <<>>
    ELSE IF Len(list) = 1 THEN list[1]
    ELSE list[1] \o <<sep>> \o Join(Tail(list), sep)

RECURSIVE StripNonEmpty(_)
StripNonEmpty(parts) ==
    IF parts = <<>> THEN <<>>
    ELSE IF Strip(Head(parts)) # <<>>
         THEN <<Strip(Head(parts))>> \o StripNonEmpty(Tail(parts))
         ELSE StripNonEmpty(Tail(parts))

parse_nodes(nodes_arg) ==
    IF ~Truthy(nodes_arg) THEN <<>>
    ELSE StripNonEmpty(Split(nodes_arg.s, ","))

get_worker_nodes(ns) ==
    IF Len(ns) <= 1 THEN <<>> ELSE Tail(ns)

----------------------------------------------------------------------------
(* The .env cache file: load_env_file and save_env_file.                   *)

K_NODES == <<"CLUSTER_NODES">>
K_ETH   == <<"ETH_IF">>
K_IB    == <<"IB_IF">>
K_IP    == <<"LOCAL_IP">>

\* sorted(env.items()) visits the keys in this order.
SortedKeys == <<K_NODES, K_ETH, K_IB, K_IP>>

NoFile == [exists |-> FALSE, lines |-> <<>>]

EmptyEnv == [k \in {} |-> <<>>]

Get(env, k) == IF k \in DOMAIN env THEN Some(env[k]) ELSE None

Put(env, k, v) == [x \in DOMAIN env \cup {k} |-> IF x = k THEN v ELSE env[x]]

RECURSIVE LoadLines(_, _)
LoadLines(lines, env) ==
    IF lines = <<>> THEN env
    ELSE LET line == Strip(Head(lines))
             kv   == Partition(line, "=")
             value == StripSet(StripSet(Strip(kv[2]), {"\""}), {"'"})
         IN  IF line # <<>> /\ Head(line) # "#" /\ Contains(line, "=")
             THEN LoadLines(Tail(lines), Put(env, Strip(kv[1]), value))
             ELSE LoadLines(Tail(lines), env)

load_env_file(file) ==
    IF file.exists THEN LoadLines(file.lines, EmptyEnv) ELSE EmptyEnv

RECURSIVE SaveLines(_, _)
SaveLines(keys, env) ==
    IF keys = <<>> THEN <<>>
    ELSE LET key == Head(keys)
         IN  IF key \notin DOMAIN env THEN SaveLines(Tail(keys), env)
             ELSE LET value == env[key]
                      line  == IF Contains(value, " ") \/ Contains(value, ",")
                               THEN key \o <<"=", "\"">> \o value \o <<"\"">>
                               ELSE key \o <<"=">> \o value
                  IN  <<line>> \o SaveLines(Tail(keys), env)

save_env_file(env) ==
    [exists |-> TRUE,
     lines  |-> <<<<"#", "Auto-generated by run-recipe.py --discover">>, <<>>>>
                \o SaveLines(SortedKeys, env) \o <<<<>>>>]

----------------------------------------------------------------------------
(* Recipes: the dictionary yaml.safe_load returns, and load_recipe.        *)

\* A token of a command template: a literal word or a {placeholder}.
Lit(t) == [ph |-> FALSE, t |-> t]
Ph(t)  == [ph |-> TRUE, t |-> t]

DistFlag == "--distributed-executor-backend"

\* The words of the commands that have DistFlag as a substring.
DistWords == {DistFlag, "--distributed-executor-backend=ray"}

\* vllm serve --port {port} \
\*     --tensor-parallel-size {tensor_parallel} \
\*     --distributed-executor-backend ray
CmdCluster ==
    << <<Lit("vllm"), Lit("serve"), Lit("--port"), Ph("port"), Lit("\\")>>,
       <<Lit("--tensor-parallel-size"), Ph("tensor_parallel"), Lit("\\")>>,
       <<Lit(DistFlag), Lit("ray")>> >>

Defaults == [port |-> "8000", tensor_parallel |-> "2"]

\* The list without its last field.
Required_but_command == <<"name", "recipe_version", "container">>

Required == <<"name", "recipe_version", "container", "command">>

BaseRecipe ==
    [name |-> "r", recipe_version |-> "1", container |-> "img",
     command |-> CmdCluster, defaults |-> Defaults]

Without(r, f) == [k \in DOMAIN r \ {f} |-> r[k]]

\* The recipe files the invocations are run on: with and without a model
\* and cluster_only, one whose defaults leave {tensor_parallel} without a
\* value, one that gives every optional field, four that each lack a
\* required field, one that lacks two of them and one that lacks all.
RecipeFiles ==
    { BaseRecipe,
      [BaseRecipe EXCEPT !.defaults = [port |-> "8000"]]
          @@ [model |-> Some(<<"org/m">>)],
      [BaseRecipe EXCEPT !.recipe_version = "2"]
          @@ [description |-> "d", model |-> None, mods |-> <<"mods/fix">>,
              env |-> << <<"HF_HOME", "/c">> >>,
              build_args |-> <<"-f", "Dockerfile.x">>, cluster_only |-> TRUE],
      BaseRecipe @@ [model |-> Some(<<"org/m">>), cluster_only |-> TRUE] }
    \cup { Without(BaseRecipe, f) :
             f \in {"name", "recipe_version", "container", "command"} }
    \cup { Without(Without(BaseRecipe, "recipe_version"), "command"),
           [description |-> "d"] }

NoRecipe == [name |-> ""]

SetDefault(r, k, v) == IF k \in DOMAIN r THEN r ELSE r @@ (k :> v)

\* Index of the first required field the file lacks, 0 if none.
RECURSIVE FirstMissing(_, _)
FirstMissing(r, i) ==
    IF i > Len(Required) THEN 0
    ELSE IF Required[i] \notin DOMAIN r THEN i ELSE FirstMissing(r, i + 1)

\* load_recipe on a file that was found: [ok, recipe].
load_recipe(file) ==
    IF FirstMissing(file, 1) # 0 THEN [ok |-> FALSE, recipe |-> NoRecipe]
    ELSE [ok |-> TRUE,
          recipe |-> SetDefault(SetDefault(SetDefault(SetDefault(SetDefault(
                        file, "description", ""), "model", None),
                        "mods", <<>>), "defaults", [k \in {} |-> ""]),
                        "env", <<>>)]

\* dict.get(key, default)
GetOr(r, k, d) == IF k \in DOMAIN r THEN r[k] ELSE d

----------------------------------------------------------------------------
(* Command lines.                                                          *)

\* -n / --nodes as typed on the command line.
NodesArgs ==
    { None,
      Some(<<"h">>),
      Some(<<"h", ",", " ", "w", " ", ",", ",", "v">>) }

DefaultArgs ==
    [recipe |-> FALSE, list |-> FALSE, discover |-> FALSE, show_env |-> FALSE,
     setup |-> FALSE, build_only |-> FALSE, download_only |-> FALSE,
     force_build |-> FALSE, force_download |-> FALSE, dry_run |-> FALSE,
     solo |-> FALSE, nodes |-> None, tensor_parallel |-> None, port |-> None]

\* Every combination of the options main() looks at before it loads the
\* recipe, the others at argparse's defaults; and -n with a blank string.
EarlyArgs ==
    { [DefaultArgs EXCEPT !.recipe = r, !.list = l, !.discover = d,
                          !.show_env = s] :
        r \in BOOLEAN, l \in BOOLEAN, d \in BOOLEAN, s \in BOOLEAN }
    \cup { [DefaultArgs EXCEPT !.recipe = TRUE, !.nodes = Some(<<" ">>)] }

\* A recipe with every combination of the phase options, --solo and -n.
PhaseArgs ==
    { [DefaultArgs EXCEPT !.recipe = TRUE,
                          !.setup = su, !.build_only = bo,
                          !.download_only = do, !.force_build = fb,
                          !.force_download = fd, !.dry_run = dr,
                          !.solo = so, !.nodes = n] :
        su \in BOOLEAN, bo \in BOOLEAN, do \in BOOLEAN, fb \in BOOLEAN,
        fd \in BOOLEAN, dr \in BOOLEAN, so \in BOOLEAN, n \in NodesArgs }

\* --discover together with a recipe.
DiscoverArgs ==
    { [DefaultArgs EXCEPT !.recipe = TRUE, !.discover = TRUE,
                          !.setup = su, !.dry_run = dr,
                          !.solo = so, !.nodes = n] :
        su \in BOOLEAN, dr \in BOOLEAN, so \in BOOLEAN, n \in NodesArgs }

ArgsSet == EarlyArgs \cup PhaseArgs \cup DiscoverArgs

\* What autodiscover.sh can print for the four variables.
DiscoverOutputs ==
    { (K_NODES :> ns) @@ (K_ETH :> <<"eth0">>) @@ (K_IB :> <<>>)
        @@ (K_IP :> <<"h">>) :
        ns \in { <<>>, <<",">>, <<"h">>, <<"h", ",", "w">> } }

\* .env files found on disk at the start: none, or one written earlier.
EnvFiles ==
    { NoFile }
    \cup { save_env_file((K_NODES :> ns) @@ (K_ETH :> <<"eth0">>)
                          @@ (K_IB :> <<>>) @@ (K_IP :> <<"h">>)) :
             ns \in { <<"h", ",", "w">> } }

\* What input(...).strip().lower() can return.
Answers == {"", "y", "yes", "n", "no", "x"}

\* The answers to a [Y/n] prompt with the refusals among them.
Yes_and_no == {"", "y", "yes", "n", "no"}

Yes == {"", "y", "yes"}

ExitCodes == {0, 1}

\* Exit statuses of launch-cluster.sh.
LauncherCodes == {0, 1, 2}

NoDisc ==
    [caller |-> "none", env |-> EmptyEnv, all |-> <<>>, idx |-> 0,
     selected |-> <<>>, some |-> FALSE, answers |-> <<>>]

\* No function is being applied on its own.
NoProbe == [fn |-> "none"]

\* One external action: the program run (or "input" for a prompt,
\* "save_env" / "load_env" for the .env file, "model_check" for the look at
\* the model cache, "no_build_script" / "no_download_script" for the error
\* printed when a script is absent, "missing_field" for the error printed
\* by load_recipe), the place in main() that did it, its host or
\* copy-target or node list (for "input" the answer typed, for
\* "missing_field" the field named), its exit status, and whether --solo
\* was on its command line.
Call(tool, site, targets, rc) ==
    [tool |-> tool, site |-> site, targets |-> targets, rc |-> rc,
     solo |-> FALSE]

\* The entries of `calls` that are child processes.
Subprocess == {"bash", "docker", "ssh", "build", "download", "launch"}

Fresh ==
    /\ pc' = "start"
    /\ exit_code' = 0
    /\ recipe' = NoRecipe
    /\ parsed' = NoRecipe
    /\ nodes' = <<>>
    /\ nodes_from_env' = FALSE
    /\ disc' = NoDisc
    /\ tempFile' = "none"
    /\ script' = <<>>
    /\ pending' = [kind |-> "none", code |-> 0]
    /\ calls' = <<>>

Init ==
    /\ run = 1
    /\ args \in ArgsSet
    /\ pc = "start"
    /\ exit_code = 0
    /\ recipe = NoRecipe
    /\ nodes = <<>>
    /\ nodes_from_env = FALSE
    /\ disc = NoDisc
    /\ envFile \in EnvFiles
    /\ tempFile = "none"
    /\ script = <<>>
    /\ pending = [kind |-> "none", code |-> 0]
    /\ calls = <<>>
    /\ prev_build = FALSE
    /\ parsed = NoRecipe
    /\ probe = NoProbe

\* return <code> from main(), then sys.exit(<code>)
Return(code) ==
    /\ pc' = "done"
    /\ exit_code' = code

----------------------------------------------------------------------------
(* main(): --discover, --show-env, --list, and loading the recipe.         *)

\* if args.discover: env = run_autodiscover()
Discover ==
    /\ pc = "start"
    /\ IF args.discover
       THEN /\ disc' = [NoDisc EXCEPT !.caller = "flag"]
            /\ pc' = "autodiscover"
       ELSE /\ pc' = "show_env"
            /\ disc' = disc
    /\ UNCHANGED <<probe, parsed, prev_build, run, args, exit_code, recipe, nodes, nodes_from_env,
                   envFile, tempFile, script, pending, calls>>

\* run_autodiscover() returns None (some = FALSE) or env to its caller;
\* d is its working state at the return.
AutodiscoverReturn(d, some, env) ==
    /\ disc' = [d EXCEPT !.some = some, !.env = env]
    /\ pc' = IF disc.caller = "flag" THEN "discover_ret" ELSE "resolve_ret"

\* run_autodiscover() up to the interactive selection.
RunAutodiscover ==
    /\ pc = "autodiscover"
    /\ \E exists \in BOOLEAN, rc \in ExitCodes, out \in DiscoverOutputs :
         IF ~exists
         THEN /\ AutodiscoverReturn(disc, FALSE, EmptyEnv)
              /\ calls' = calls
         ELSE /\ calls' = Append(calls, Call("bash", disc.caller, <<>>, rc))
              /\ IF rc # 0
                 THEN AutodiscoverReturn(disc, FALSE, EmptyEnv)
                 ELSE LET all_nodes == StripNonEmpty(Split(out[K_NODES], ","))
                      IN  IF Truthy(Get(out, K_NODES)) /\ Len(all_nodes) > 1
                          THEN /\ disc' = [disc EXCEPT !.env = out,
                                              !.all = all_nodes, !.idx = 1,
                                              !.selected = <<>>]
                               /\ pc' = "select"
                          ELSE AutodiscoverReturn(disc, TRUE, out)
    /\ UNCHANGED <<probe, parsed, prev_build, run, args, exit_code, recipe, nodes, nodes_from_env,
                   envFile, tempFile, script, pending>>

\* One answer to "Include <node>? [Y/n]"; after the last node the function
\* returns.  Any other answer prints a hint and asks again.  `answers`
\* keeps the answer that settled each node until the caller goes on.
SelectNode ==
    /\ pc = "select"
    /\ \E response \in Answers :
         IF response \notin Yes \cup {"n", "no"}
         THEN UNCHANGED <<pc, disc>>
         ELSE LET selected_nodes ==
                      IF response \in Yes
                      THEN Append(disc.selected, disc.all[disc.idx])
                      ELSE disc.selected
                  d == [disc EXCEPT !.selected = selected_nodes,
                                    !.answers = Append(@, response)]
              IN  IF disc.idx < Len(disc.all)
                  THEN /\ disc' = [d EXCEPT !.idx = disc.idx + 1]
                       /\ pc' = pc
                  ELSE IF selected_nodes = <<>>
                       THEN AutodiscoverReturn(d, FALSE, EmptyEnv)
                       ELSE AutodiscoverReturn(d, TRUE,
                                Put(disc.env, K_NODES,
                                    Join(selected_nodes, ",")))
    /\ UNCHANGED <<probe, parsed, prev_build, run, args, exit_code, recipe, nodes, nodes_from_env,
                   envFile, tempFile, script, pending, calls>>

\* The rest of the --discover branch: return 1, or save and go on.
DiscoverDone ==
    /\ pc = "discover_ret"
    /\ IF ~disc.some
       THEN /\ Return(1)
            /\ UNCHANGED <<envFile, calls>>
       ELSE /\ envFile' = save_env_file(disc.env)
            /\ calls' = Append(calls, Call("save_env", "flag", <<>>, 0))
            /\ IF ~args.recipe
               THEN Return(0)
               ELSE /\ pc' = "show_env"
                    /\ exit_code' = exit_code
    /\ disc' = [disc EXCEPT !.answers = <<>>]
    /\ UNCHANGED <<probe, parsed, prev_build, run, args, recipe, nodes, nodes_from_env,
                   tempFile, script, pending>>

\* if args.show_env: ...
ShowEnv ==
    /\ pc = "show_env"
    /\ IF args.show_env
       THEN /\ calls' = Append(calls, Call("load_env", "show_env", <<>>, 0))
            /\ IF ~args.recipe
               THEN Return(0)
               ELSE /\ pc' = "dispatch"
                    /\ exit_code' = exit_code
       ELSE /\ pc' = "dispatch"
            /\ UNCHANGED <<exit_code, calls>>
    /\ UNCHANGED <<probe, parsed, prev_build, run, args, recipe, nodes, nodes_from_env, disc, envFile,
                   tempFile, script, pending>>

\* if args.list: list_recipes(); return 0.  list_recipes calls load_recipe
\* on every file of recipes/, whose sys.exit(1) on a file that lacks a
\* required field is not an Exception and ends the process.
ListRecipes ==
    /\ pc = "dispatch"
    /\ args.list
    /\ \E file \in RecipeFiles :
         Return(IF load_recipe(file).ok THEN 0 ELSE 1)
    /\ UNCHANGED <<probe, parsed, prev_build, run, args, recipe, nodes, nodes_from_env, disc, envFile,
                   tempFile, script, pending, calls>>

\* if not args.recipe: parser.print_help(); return 1
NoRecipeGiven ==
    /\ pc = "dispatch"
    /\ ~args.list
    /\ ~args.recipe
    /\ Return(1)
    /\ UNCHANGED <<probe, parsed, prev_build, run, args, recipe, nodes, nodes_from_env, disc, envFile,
                   tempFile, script, pending, calls>>

\* recipe = load_recipe(recipe_path): not found or a required field missing
\* is sys.exit(1); the latter after "Error: Recipe missing required field".
LoadRecipe ==
    /\ pc = "dispatch"
    /\ ~args.list
    /\ args.recipe
    /\ \E found \in BOOLEAN, file \in RecipeFiles :
         IF ~found
         THEN /\ Return(1)
              /\ UNCHANGED <<recipe, parsed, calls>>
         ELSE /\ parsed' = file
              /\ IF load_recipe(file).ok
                 THEN /\ recipe' = load_recipe(file).recipe
                      /\ pc' = "resolve"
                      /\ UNCHANGED <<exit_code, calls>>
                 ELSE /\ Return(1)
                      /\ recipe' = recipe
                      /\ calls' = Append(calls,
                             Call("missing_field", "load_recipe",
                                  <<Required[FirstMissing(file, 1)]>>, 1))
    /\ UNCHANGED <<probe, prev_build, run, args, nodes, nodes_from_env, disc, envFile,
                   tempFile, script, pending>>

----------------------------------------------------------------------------
(* main(): node resolution and the cluster-only check.                     *)

\* nodes = parse_nodes(args.nodes), then the .env file, then autodiscover.
\* The test without its "and not args.solo".
FromCommandLine_no_solo(ns) == ns # <<>>

\* not (not nodes and not args.solo): the command line settles the nodes
FromCommandLine(ns) == ns # <<>> \/ args.solo

ResolveNodes ==
    /\ pc = "resolve"
    /\ LET ns  == parse_nodes(args.nodes)
           env == load_env_file(envFile)
       IN  IF FromCommandLine(ns)
           THEN /\ nodes' = ns
                /\ pc' = "cluster_check"
                /\ UNCHANGED <<nodes_from_env, disc, calls>>
           ELSE /\ calls' = Append(calls, Call("load_env", "resolve", <<>>, 0))
                /\ IF Truthy(Get(env, K_NODES))
                   THEN /\ nodes' = parse_nodes(Get(env, K_NODES))
                        /\ nodes_from_env' = TRUE
                        /\ pc' = "cluster_check"
                        /\ disc' = disc
                   ELSE /\ disc' = [NoDisc EXCEPT !.caller = "resolve"]
                        /\ pc' = "autodiscover"
                        /\ UNCHANGED <<nodes, nodes_from_env>>
    /\ UNCHANGED <<probe, parsed, prev_build, run, args, exit_code, recipe, envFile, tempFile, script,
                   pending>>

\* After discovered_env = run_autodiscover(): take its nodes and offer to
\* save them.
AfterAutodiscover ==
    /\ pc = "resolve_ret"
    /\ pc' = "cluster_check"
    /\ IF disc.some /\ Truthy(Get(disc.env, K_NODES))
       THEN LET ns == parse_nodes(Get(disc.env, K_NODES))
            IN  /\ nodes' = ns
                /\ nodes_from_env' = TRUE
                /\ IF ns # <<>>
                   THEN \E response \in Answers :
                          LET asked == Append(calls,
                                          Call("input", "save", <<response>>, 0))
                          IN  IF response \in Yes
                              THEN /\ envFile' = save_env_file(disc.env)
                                   /\ calls' = Append(asked,
                                         Call("save_env", "resolve", <<>>, 0))
                              ELSE /\ envFile' = envFile
                                   /\ calls' = asked
                   ELSE UNCHANGED <<envFile, calls>>
       ELSE UNCHANGED <<nodes, nodes_from_env, envFile, calls>>
    /\ disc' = [disc EXCEPT !.answers = <<>>]
    /\ UNCHANGED <<probe, parsed, prev_build, run, args, exit_code, recipe, tempFile, script,
                   pending>>

worker_nodes == IF nodes # <<>> THEN get_worker_nodes(nodes) ELSE <<>>

is_cluster == Len(nodes) > 1

\* cluster_only read as if no recipe ever set it.
cluster_only_ignored == FALSE

cluster_only == GetOr(recipe, "cluster_only", FALSE)

\* is_solo without the automatic solo mode of a run with fewer than two nodes.
is_solo_flag_only == args.solo

is_solo == args.solo \/ ~is_cluster

\* copy_targets that keeps the head node in the list.
copy_targets_with_head == IF is_cluster THEN nodes ELSE <<>>

\* copy_targets that --solo empties.
copy_targets_unless_solo ==
    IF is_cluster /\ ~args.solo THEN worker_nodes ELSE <<>>

\* copy_targets = worker_nodes if is_cluster else None; None and [] are
\* both false wherever it is tested.
copy_targets == IF is_cluster THEN worker_nodes ELSE <<>>

\* if cluster_only and is_solo: ... return 1
ClusterOnlyCheck ==
    /\ pc = "cluster_check"
    /\ IF cluster_only /\ is_solo
       THEN Return(1)
       ELSE /\ pc' = "build"
            /\ exit_code' = exit_code
    /\ UNCHANGED <<probe, parsed, prev_build, run, args, recipe, nodes, nodes_from_env, disc, envFile,
                   tempFile, script, pending, calls>>

----------------------------------------------------------------------------
(* generate_launch_script.  A dict that keeps its insertion order (env) is *)
(* a sequence of <<key, value>> pairs.  The invocations modelled pass no   *)
(* arguments after "--", so extra_args is the empty list.                  *)

\* overrides in which solo mode sets tensor_parallel whatever --tp said.
Overrides_solo_wins(a, solo) ==
    (IF solo THEN [tensor_parallel |-> "1"]
     ELSE IF a.tensor_parallel.some
          THEN [tensor_parallel |-> a.tensor_parallel.s]
          ELSE [k \in {} |-> ""])
    @@ (IF a.port.some THEN [port |-> a.port.s] ELSE [k \in {} |-> ""])

\* overrides, as main() builds it from the command line.
Overrides(a, solo) ==
    LET port == IF a.port.some THEN [port |-> a.port.s] ELSE [k \in {} |-> ""]
        tp   == IF a.tensor_parallel.some
                THEN [tensor_parallel |-> a.tensor_parallel.s]
                ELSE IF solo THEN [tensor_parallel |-> "1"]
                     ELSE [k \in {} |-> ""]
    IN  port @@ tp

\* The merge that drops the overrides.
Merge_defaults_only(defaults, overrides) == defaults

\* {**recipe.get("defaults", {}), **overrides}
Merge(defaults, overrides) == overrides @@ defaults

\* command.format(**params) raises KeyError on a placeholder without value.
MissingKey(command, params) ==
    \E i \in 1..Len(command) : \E j \in 1..Len(command[i]) :
        command[i][j].ph /\ command[i][j].t \notin DOMAIN params

Format(command, params) ==
    [i \in 1..Len(command) |->
        [j \in 1..Len(command[i]) |->
            IF command[i][j].ph THEN params[command[i][j].t]
            ELSE command[i][j].t]]

\* The test that looks at the first word of the line only.
HasDistFlag_first_word(line) == line # <<>> /\ line[1] \in DistWords

\* '--distributed-executor-backend' in line
HasDistFlag(line) == \E j \in 1..Len(line) : line[j] \in DistWords

NotDistLine(line) == ~HasDistFlag(line)

\* The lines of command.strip(): blank lines at either end are gone (a line
\* is its words, so the blanks around the first and last word are not
\* modelled); a command of blank lines only leaves one empty line.
RECURSIVE LStripLines(_)
LStripLines(lines) ==
    IF lines # <<>> /\ Head(lines) = <<>> THEN LStripLines(Tail(lines))
    ELSE lines

RECURSIVE RStripLines(_)
RStripLines(lines) ==
    IF lines # <<>> /\ lines[Len(lines)] = <<>>
    THEN RStripLines(SubSeq(lines, 1, Len(lines) - 1))
    ELSE lines

StripLines(lines) ==
    IF RStripLines(LStripLines(lines)) = <<>> THEN << <<>> >>
    ELSE RStripLines(LStripLines(lines))

RECURSIVE ExportLines(_)
ExportLines(env) ==
    IF env = <<>> THEN <<>>
    ELSE << <<"export", Head(env)[1], "=", "\"", Head(env)[2], "\"">> >>
         \o ExportLines(Tail(env))

\* [ok, text]: ok = FALSE is the sys.exit(1) of the KeyError handler.
generate_launch_script(r, overrides, solo) ==
    LET params   == Merge(GetOr(r, "defaults", [k \in {} |-> ""]), overrides)
        env_vars == GetOr(r, "env", <<>>)
        head     == << <<"#!/bin/bash">>,
                       <<"# Generated from recipe:", r.name>>, <<>> >>
        exports  == IF env_vars # <<>>
                    THEN << <<"# Environment variables">> >>
                         \o ExportLines(env_vars) \o << <<>> >>
                    ELSE <<>>
        command  == Format(r.command, params)
        filtered == IF solo THEN SelectSeq(command, NotDistLine) ELSE command
    IN  IF MissingKey(r.command, params)
        THEN [ok |-> FALSE, text |-> <<>>]
        ELSE [ok |-> TRUE,
              text |-> head \o exports \o << <<"# Run the model">> >>
                       \o StripLines(filtered) \o << <<>> >>]

----------------------------------------------------------------------------
(* main(): the build, download and run phases.                             *)

\* check_image_exists(image) / check_image_exists(image, host): one docker
\* or ssh child process; True iff it exits 0.
check_image_exists(site, host, rc) ==
    [found |-> rc = 0,
     calls |-> << Call(IF host = <<>> THEN "docker" ELSE "ssh", site,
                       host, rc) >>]

\* build_image that does not look at the script's exit status.
build_image_any_status(site, copy_to, exists, rc) ==
    [ok    |-> exists,
     calls |-> IF exists THEN <<Call("build", site, copy_to, rc)>>
               ELSE <<Call("no_build_script", site, copy_to, 0)>>]

\* build_image that takes an absent script for success.
build_image_ok_when_absent(site, copy_to, exists, rc) ==
    [ok    |-> ~exists \/ rc = 0,
     calls |-> IF exists THEN <<Call("build", site, copy_to, rc)>>
               ELSE <<Call("no_build_script", site, copy_to, 0)>>]

\* build_image(image, copy_to, build_args): False without a child process
\* when build-and-copy.sh is absent, else True iff the script exits 0.
build_image(site, copy_to, exists, rc) ==
    [ok    |-> exists /\ rc = 0,
     calls |-> IF exists THEN <<Call("build", site, copy_to, rc)>>
               ELSE <<Call("no_build_script", site, copy_to, 0)>>]

\* download_model(model, copy_to): the same for hf-download.sh.
download_model(site, copy_to, exists, rc) ==
    [ok    |-> exists /\ rc = 0,
     calls |-> IF exists THEN <<Call("download", site, copy_to, rc)>>
               ELSE <<Call("no_download_script", site, copy_to, 0)>>]

\* The loop over copy_targets: one ssh check per worker, in order.
RECURSIVE WorkerChecks(_, _)
WorkerChecks(targets, present) ==
    IF targets = <<>> THEN <<>>
    ELSE check_image_exists("build", <<Head(targets)>>,
                            IF Head(targets) \in present THEN 0 ELSE 1).calls
         \o WorkerChecks(Tail(targets), present)

\* The list that takes every worker for missing.
MissingOn_all(targets, present) == targets

RECURSIVE MissingOn(_, _)
MissingOn(targets, present) ==
    IF targets = <<>> THEN <<>>
    ELSE (IF Head(targets) \in present THEN <<>> ELSE <<Head(targets)>>)
         \o MissingOn(Tail(targets), present)

Range(seq) == { seq[i] : i \in 1..Len(seq) }

\* Leave the build phase: return 0 under --build-only, else go on.
AfterBuild(cs) ==
    /\ calls' = cs
    /\ IF args.build_only
       THEN Return(0)
       ELSE /\ pc' = "download"
            /\ exit_code' = exit_code

\* if args.build_only or args.setup or args.force_build
BuildRequested == args.build_only \/ args.setup \/ args.force_build

\* The test always true: build whether or not the image is there.
NeedsBuild_always(image_exists) == TRUE

\* if args.force_build or not image_exists
NeedsBuild(image_exists) == args.force_build \/ ~image_exists

BuildPhase ==
    /\ pc = "build"
    /\ IF ~BuildRequested
       THEN /\ pc' = "download"
            /\ UNCHANGED <<exit_code, calls>>
       ELSE \E rc \in ExitCodes, exists \in BOOLEAN, brc \in ExitCodes,
               present \in SUBSET Range(copy_targets) :
            LET image  == check_image_exists("build", <<>>, rc)
                seen   == calls \o image.calls
                full   == build_image("build", copy_targets, exists, brc)
                missing_on == MissingOn(copy_targets, present)
                checked == seen \o WorkerChecks(copy_targets, present)
                part   == build_image("build", missing_on, exists, brc)
            IN  IF args.dry_run
                THEN AfterBuild(seen)
                ELSE IF NeedsBuild(image.found)
                THEN IF full.ok
                     THEN AfterBuild(seen \o full.calls)
                     ELSE /\ calls' = seen \o full.calls
                          /\ Return(1)
                ELSE IF missing_on # <<>>
                THEN IF part.ok
                     THEN AfterBuild(checked \o part.calls)
                     ELSE /\ calls' = checked \o part.calls
                          /\ Return(1)
                ELSE AfterBuild(checked)
    /\ UNCHANGED <<probe, parsed, prev_build, run, args, recipe, nodes, nodes_from_env, disc, envFile,
                   tempFile, script, pending>>

\* Leave the download phase: return 0 under --download-only, else go on.
AfterDownload(cs) ==
    /\ calls' = cs
    /\ IF args.download_only
       THEN Return(0)
       ELSE /\ pc' = "run"
            /\ exit_code' = exit_code

\* check_model_exists(model) looks at the Hugging Face cache directory; it
\* runs no child process.
check_model_exists(site, found) ==
    [found |-> found,
     calls |-> <<Call("model_check", site, <<>>, IF found THEN 0 ELSE 1)>>]

\* if model and (args.download_only or args.setup or args.force_download)
DownloadRequested ==
    /\ Truthy(recipe.model)
    /\ (args.download_only \/ args.setup \/ args.force_download)

\* if args.force_download or not model_exists
NeedsDownload(model_exists) == args.force_download \/ ~model_exists

DownloadPhase ==
    /\ pc = "download"
    /\ IF ~DownloadRequested
       THEN /\ pc' = "run"
            /\ UNCHANGED <<exit_code, calls>>
       ELSE \E model_exists \in BOOLEAN, exists \in BOOLEAN,
               rc \in ExitCodes :
            LET check == check_model_exists("download", model_exists)
                seen  == calls \o check.calls
                dl == download_model("download", copy_targets, exists, rc)
            IN  IF args.dry_run
                THEN AfterDownload(seen)
                ELSE IF NeedsDownload(check.found)
                THEN IF dl.ok
                     THEN AfterDownload(seen \o dl.calls)
                     ELSE /\ calls' = seen \o dl.calls
                          /\ Return(1)
                ELSE AfterDownload(seen)
    /\ UNCHANGED <<probe, parsed, prev_build, run, args, recipe, nodes, nodes_from_env, disc, envFile,
                   tempFile, script, pending>>

\* if args.build_only or args.download_only: return 0; then the check that
\* the image is there, with its "Build now? [y/N]" prompt.
\* The test without --download-only.
PhaseOnly_build_only == args.build_only

\* if args.build_only or args.download_only: return 0
PhaseOnly == args.build_only \/ args.download_only

\* The test without its "not args.dry_run".
SkipImageCheck_no_dry_run == args.setup

\* not (not args.dry_run and not args.setup ...): no look at the image
SkipImageCheck == args.dry_run \/ args.setup

\* The test taking every answer but a refusal for assent.
BuildNow_unless_no(response) == response \notin {"n", "no"}

\* if response == 'y': the answer to "Build now? [y/N]" that builds
BuildNow(response) == response = "y"

RunPhase ==
    /\ pc = "run"
    /\ IF PhaseOnly
       THEN /\ Return(0)
            /\ calls' = calls
       ELSE IF SkipImageCheck
       THEN /\ pc' = "generate"
            /\ UNCHANGED <<exit_code, calls>>
       ELSE \E rc \in ExitCodes, response \in Answers, exists \in BOOLEAN,
               brc \in ExitCodes :
            LET image == check_image_exists("run", <<>>, rc)
                asked == calls \o image.calls
                           \o <<Call("input", "build_now", <<response>>, 0)>>
                built == build_image("run", copy_targets, exists, brc)
            IN  IF image.found
                THEN /\ calls' = calls \o image.calls
                     /\ pc' = "generate"
                     /\ exit_code' = exit_code
                ELSE IF BuildNow(response)
                THEN /\ calls' = asked \o built.calls
                     /\ IF built.ok
                        THEN /\ pc' = "generate"
                             /\ exit_code' = exit_code
                        ELSE Return(1)
                ELSE /\ calls' = asked
                     /\ Return(1)
    /\ UNCHANGED <<probe, parsed, prev_build, run, args, recipe, nodes, nodes_from_env, disc, envFile,
                   tempFile, script, pending>>

\* script_content = generate_launch_script(...); under --dry-run print it
\* and return 0.
GenerateScript ==
    /\ pc = "generate"
    /\ LET g == generate_launch_script(recipe, Overrides(args, is_solo),
                                       is_solo)
       IN  IF ~g.ok
           THEN /\ Return(1)
                /\ script' = script
           ELSE /\ script' = g.text
                /\ IF args.dry_run
                   THEN Return(0)
                   ELSE /\ pc' = "mktemp"
                        /\ exit_code' = exit_code
    /\ UNCHANGED <<probe, parsed, prev_build, run, args, recipe, nodes, nodes_from_env, disc, envFile,
                   tempFile, pending, calls>>

----------------------------------------------------------------------------
(* main(): the temporary script and the launcher.  An exception that       *)
(* nothing catches ends the process with status 1.                         *)

\* tempfile.NamedTemporaryFile(mode='w', suffix='.sh', delete=False)
CreateTemp ==
    /\ pc = "mktemp"
    /\ \E ok \in BOOLEAN :
         IF ok
         THEN /\ tempFile' = "exists"
              /\ pc' = "write"
              /\ exit_code' = exit_code
         ELSE /\ Return(1)
              /\ tempFile' = tempFile
    /\ UNCHANGED <<probe, parsed, prev_build, run, args, recipe, nodes, nodes_from_env, disc, envFile,
                   script, pending, calls>>

\* f.write(script_content) and the close at the end of the with block; they
\* come before the try, so an OSError here leaves main() at once.
WriteScript ==
    /\ pc = "write"
    /\ \E ok \in BOOLEAN :
         IF ok
         THEN /\ pc' = "chmod"
              /\ exit_code' = exit_code
         ELSE Return(1)
    /\ UNCHANGED <<probe, parsed, prev_build, run, args, recipe, nodes, nodes_from_env, disc, envFile,
                   tempFile, script, pending, calls>>

\* try: os.chmod(temp_script, 0o755)
Chmod ==
    /\ pc = "chmod"
    /\ \E ok \in BOOLEAN :
         IF ok
         THEN /\ pc' = "launch"
              /\ pending' = pending
         ELSE /\ pc' = "finally"
              /\ pending' = [kind |-> "raise", code |-> 1]
    /\ UNCHANGED <<probe, parsed, prev_build, run, args, exit_code, recipe, nodes, nodes_from_env,
                   disc, envFile, tempFile, script, calls>>

\* The command line without the automatic --solo of a run without cluster.
LaunchCall_solo_flag_only(rc) ==
    [tool |-> "launch", site |-> "launch", targets |-> nodes, rc |-> rc,
     solo |-> args.solo]

\* The launch-cluster.sh command line: --solo, and -n with the node list.
LaunchCall(rc) ==
    [tool |-> "launch", site |-> "launch", targets |-> nodes, rc |-> rc,
     solo |-> args.solo \/ ~is_cluster]

\* result = subprocess.run(cmd); return result.returncode.  subprocess.run
\* raises when launch-cluster.sh cannot be started, or when the wait for it
\* is interrupted.
Launch ==
    /\ pc = "launch"
    /\ pc' = "finally"
    /\ \E outcome \in {"absent", "interrupted", "exited"},
          rc \in LauncherCodes :
         /\ calls' = IF outcome = "absent" THEN calls
                     ELSE Append(calls, LaunchCall(rc))
         /\ pending' = IF outcome = "exited"
                       THEN [kind |-> "return", code |-> rc]
                       ELSE [kind |-> "raise", code |-> 1]
    /\ UNCHANGED <<probe, parsed, prev_build, run, args, exit_code, recipe, nodes, nodes_from_env,
                   disc, envFile, tempFile, script>>

\* finally: os.unlink(temp_script); then the pending return or raise.  The
\* file is the one this invocation created, and its removal succeeds.
Cleanup ==
    /\ pc = "finally"
    /\ tempFile' = "removed"
    /\ Return(pending.code)
    /\ UNCHANGED <<probe, parsed, prev_build, run, args, recipe, nodes, nodes_from_env, disc, envFile,
                   script, pending, calls>>

\* The same command line is run again, on the .env file the last
\* invocation left.
Restart ==
    /\ pc = "done"
    /\ run < MaxRuns
    /\ run' = run + 1
    /\ Fresh
    /\ prev_build' = \E i \in 1..Len(calls) :
                         calls[i].tool = "docker" /\ calls[i].site = "build"
    /\ UNCHANGED <<args, envFile, probe>>

Next ==
    \/ Discover
    \/ RunAutodiscover
    \/ SelectNode
    \/ DiscoverDone
    \/ ShowEnv
    \/ ListRecipes
    \/ NoRecipeGiven
    \/ LoadRecipe
    \/ ResolveNodes
    \/ AfterAutodiscover
    \/ ClusterOnlyCheck
    \/ BuildPhase
    \/ DownloadPhase
    \/ RunPhase
    \/ GenerateScript
    \/ CreateTemp
    \/ WriteScript
    \/ Chmod
    \/ Launch
    \/ Cleanup
    \/ Restart

Spec == Init /\ [][Next]_vars

----------------------------------------------------------------------------
(* save_env_file, load_env_file and generate_launch_script applied on      *)
(* their own, to arguments main() does not happen to pass them.            *)

\* Longest text written to the .env file by the applications below.
MaxLen == 3

\* Most lines of a command template in the applications below.
MaxLines == 3

\* The characters and words of the values written: addresses, the comma
\* between them and the blank.
Alphabet == {"a", "b", ",", " "}

Texts(n) == UNION { [1..k -> Alphabet] : k \in 0..n }

\* Dictionaries given to save_env_file, with the keys run_autodiscover
\* collects: all four, or the node list alone.
ProbeEnvs ==
    { (K_NODES :> ns) @@ (K_IP :> ip) @@ (K_ETH :> <<"eth0">>)
        @@ (K_IB :> <<>>) : ns \in Texts(MaxLen), ip \in Texts(MaxLen - 1) }
    \cup { (K_NODES :> ns) : ns \in Texts(MaxLen) }

\* Lines of a command template: with the flag as a word of its own, inside
\* a longer word, brought in by a placeholder's value, without it, blank;
\* and with the {port} and {tensor_parallel} placeholders.
ProbeLines ==
    { <<Lit("vllm"), Lit("serve"), Lit("--port"), Ph("port"), Lit("\\")>>,
      <<Lit("--tensor-parallel-size"), Ph("tensor_parallel"), Lit("\\")>>,
      <<Lit(DistFlag), Lit("ray"), Lit("\\")>>,
      <<Lit("--seed"), Lit("0"), Lit("--distributed-executor-backend=ray")>>,
      <<Ph("extra"), Lit("ray")>>,
      <<Lit("--max-model-len"), Lit("4096"), Lit("\\")>>,
      <<>> }

ProbeDefaults == [port |-> "8000", extra |-> DistFlag]

\* Recipes with these commands, with and without a default for
\* {tensor_parallel}.
ProbeRecipes ==
    { [BaseRecipe EXCEPT !.command = c, !.defaults = d] :
        c \in UNION { [1..k -> ProbeLines] : k \in 0..MaxLines },
        d \in { ProbeDefaults,
                ProbeDefaults @@ [tensor_parallel |-> "2"] } }

\* Command lines with and without --solo, --tensor-parallel and --port.
ProbeArgs ==
    { [DefaultArgs EXCEPT !.recipe = TRUE, !.solo = so,
                          !.tensor_parallel = tp, !.port = po] :
        so \in BOOLEAN, tp \in {None, Some("4")},
        po \in {None, Some("9000")} }

\* Resolved node lists: none, and a head with one worker.
ProbeNodes == { <<>>, <<<<"h">>, <<"w">>>> }

InitPure ==
    /\ run = 1
    /\ pc = "apply"
    /\ exit_code = 0
    /\ nodes_from_env = FALSE
    /\ disc = NoDisc
    /\ envFile = NoFile
    /\ tempFile = "none"
    /\ script = <<>>
    /\ pending = [kind |-> "none", code |-> 0]
    /\ calls = <<>>
    /\ prev_build = FALSE
    /\ parsed = NoRecipe
    /\ \/ /\ recipe = NoRecipe
          /\ args = DefaultArgs
          /\ nodes = <<>>
          /\ probe \in { [fn |-> "env", env |-> e, loaded |-> EmptyEnv] :
                           e \in ProbeEnvs }
       \/ /\ recipe \in ProbeRecipes
          /\ args \in ProbeArgs
          /\ nodes \in ProbeNodes
          /\ probe = [fn |-> "generate", solo |-> is_solo]

\* save_env_file(env)
ApplySaveEnvFile ==
    /\ pc = "apply"
    /\ probe.fn = "env"
    /\ envFile' = save_env_file(probe.env)
    /\ pc' = "saved"
    /\ UNCHANGED <<probe, parsed, prev_build, run, args, exit_code, recipe,
                   nodes, nodes_from_env, disc, tempFile, script, pending,
                   calls>>

\* load_env_file()
ApplyLoadEnvFile ==
    /\ pc = "saved"
    /\ probe' = [probe EXCEPT !.loaded = load_env_file(envFile)]
    /\ pc' = "loaded"
    /\ UNCHANGED <<parsed, prev_build, run, args, exit_code, recipe, nodes,
                   nodes_from_env, disc, envFile, tempFile, script, pending,
                   calls>>

\* generate_launch_script(recipe, overrides, is_solo=...)
ApplyGenerate ==
    /\ pc = "apply"
    /\ probe.fn = "generate"
    /\ LET g == generate_launch_script(recipe, Overrides(args, probe.solo),
                                       probe.solo)
       IN  /\ script' = g.text
           /\ pc' = IF g.ok THEN "generated" ELSE "done"
           /\ exit_code' = IF g.ok THEN exit_code ELSE 1
    /\ UNCHANGED <<probe, parsed, prev_build, run, args, recipe, nodes,
                   nodes_from_env, disc, envFile, tempFile, pending, calls>>

NextPure ==
    \/ ApplySaveEnvFile
    \/ ApplyLoadEnvFile
    \/ ApplyGenerate

SpecPure == InitPure /\ [][NextPure]_vars

----------------------------------------------------------------------------
(* Vocabulary of the properties.                                           *)

Done == pc = "done"

\* main() has loaded a recipe.
Loaded == recipe # NoRecipe

\* Positions of main() before `nodes` and the mode are settled.
Resolving == {"start", "autodiscover", "select", "discover_ret", "show_env",
              "dispatch", "resolve", "resolve_ret"}

\* The recipe is loaded and main() has its node list.
Resolved == Loaded /\ pc \notin Resolving

\* The recipe declares cluster_only: true.
ClusterOnlyRecipe == "cluster_only" \in DOMAIN recipe /\ recipe.cluster_only

\* The resolved mode is solo: --solo, or fewer than two nodes.
SoloMode == args.solo \/ Len(nodes) < 2

\* The workers of the resolved node list.
Workers == IF Len(nodes) < 2 THEN <<>> ELSE SubSeq(nodes, 2, Len(nodes))

CallsOf(tools) == { i \in 1..Len(calls) : calls[i].tool \in tools }

Ran(tools) == CallsOf(tools) # {}

----------------------------------------------------------------------------
(* C1 *)

\* C1 as stated: an invocation whose recipe is cluster_only and whose
\* resolved mode is solo ends with status 1 having started no child process
\* at all.
C1_NoSubprocessAtAll ==
    (Done /\ Loaded /\ ClusterOnlyRecipe /\ SoloMode)
        => (exit_code = 1 /\ ~Ran(Subprocess))

\* C1, amended: an invocation that loads a cluster_only recipe and resolves
\* to solo mode ends with status 1, and the only child process it can have
\* started before that exit is the auto-discovery shell; no docker or ssh
\* image check, build tool, download tool or launcher has run.
C1_OnlyDiscoveryBeforeExit ==
    (Done /\ Loaded /\ ClusterOnlyRecipe /\ SoloMode)
        => (exit_code = 1 /\ ~Ran(Subprocess \ {"bash"}))

\* A cluster_only recipe, no --solo, one node found by auto-discovery: exit 1.
C1_Witness ==
    /\ Done /\ Loaded /\ ClusterOnlyRecipe /\ ~args.solo
    /\ Len(nodes) = 1
    /\ Ran({"bash"})
    /\ exit_code = 1

----------------------------------------------------------------------------
(* C2 *)

\* C2: once a cluster_only recipe is loaded and the mode has resolved to
\* solo, the only position main() can be in beyond the cluster-only check is
\* its return with status 1: no build tool, download tool or launcher has
\* run and no temporary script exists, whatever the phase options are.
C2_ClusterOnlySoloStops ==
    (Resolved /\ ClusterOnlyRecipe /\ SoloMode /\ pc # "cluster_check")
        => /\ Done
           /\ exit_code = 1
           /\ ~Ran({"build", "download", "launch"})
           /\ tempFile = "none"
           /\ script = <<>>

\* --solo with -n h,w,v, --setup and --force-build on a cluster_only recipe.
C2_Witness ==
    /\ Done /\ Loaded /\ ClusterOnlyRecipe
    /\ args.solo /\ Len(nodes) = 3
    /\ args.setup /\ args.force_build /\ args.force_download
    /\ ~args.dry_run
    /\ exit_code = 1

----------------------------------------------------------------------------
(* C3 *)

\* C3 as stated: under --dry-run no child process is started, the .env
\* file is not written and no temporary script is created.
C3_NothingExternal ==
    args.dry_run
        => (~Ran(Subprocess) /\ ~Ran({"save_env"}) /\ tempFile = "none")

\* C3, amended: under --dry-run the build tool, the download tool, the
\* launcher and the ssh image check on a worker never run and no temporary
\* script is created.  What can still run is the local docker image check
\* of a requested build phase and auto-discovery (under --discover, or when
\* neither -n, --solo nor the cache gives nodes), after which the .env file
\* may be written.
C3_DryRunLaunchesNothing ==
    args.dry_run
        => /\ ~Ran({"ssh", "build", "download", "launch"})
           /\ tempFile = "none"
           /\ \A i \in CallsOf({"docker"}) :
                 calls[i].site = "build" /\ BuildRequested
           /\ \A i \in CallsOf({"save_env"}) :
                 \E j \in 1..(i - 1) :
                     calls[j].tool = "bash" /\ calls[j].rc = 0

\* A dry run of --setup on three nodes that printed the generated script.
C3_Witness ==
    /\ Done /\ args.dry_run /\ args.setup
    /\ Len(nodes) = 3
    /\ Ran({"docker"})
    /\ script # <<>>
    /\ exit_code = 0

----------------------------------------------------------------------------
(* C4 *)

\* C4: when an invocation that created the temporary launch script ends,
\* the file is gone.
C4_TempScriptRemoved ==
    (Done /\ tempFile # "none") => tempFile = "removed"

----------------------------------------------------------------------------
(* C5 *)

\* C5: every invocation that ends, ends with status 0 or 1.
C5_ExitZeroOrOne ==
    Done => exit_code \in {0, 1}

----------------------------------------------------------------------------
(* C6 *)

\* The CLUSTER_NODES value of the .env file as it is now.
CachedNodes == Get(load_env_file(envFile), K_NODES)

\* Node resolution read the .env file / called run_autodiscover().
CacheConsulted ==
    \E i \in CallsOf({"load_env"}) : calls[i].site = "resolve"

DiscoveryConsulted == disc.caller = "resolve"

\* Node resolution wrote the .env file, so it no longer is what was read.
CacheRewritten ==
    \E i \in CallsOf({"save_env"}) : calls[i].site = "resolve"

\* C6: node resolution takes the first source that applies.  A -n list
\* with at least one node is the node list, and neither the cache nor
\* auto-discovery is consulted; with --solo and no such list the node list
\* is empty and neither is consulted; otherwise a CLUSTER_NODES value in the
\* cache is used and auto-discovery is not called; auto-discovery is called
\* only when -n gives no node, --solo is absent and the cache has no
\* CLUSTER_NODES value.
C6_FirstSourceWins ==
    Resolved =>
        LET ns == parse_nodes(args.nodes)
        IN  /\ ns # <<>> =>
                  (nodes = ns /\ ~CacheConsulted /\ ~DiscoveryConsulted)
            /\ (ns = <<>> /\ args.solo) =>
                  (nodes = <<>> /\ ~CacheConsulted /\ ~DiscoveryConsulted)
            /\ (ns = <<>> /\ ~args.solo) => CacheConsulted
            /\ (ns = <<>> /\ ~args.solo /\ ~DiscoveryConsulted) =>
                  (Truthy(CachedNodes) /\ nodes = parse_nodes(CachedNodes))
            /\ DiscoveryConsulted =>
                  /\ ns = <<>> /\ ~args.solo
                  /\ ~CacheRewritten => ~Truthy(CachedNodes)

\* No -n, no --solo, and the two nodes of the cache are the node list.
C6_Witness ==
    /\ Resolved
    /\ ~Truthy(args.nodes) /\ ~args.solo
    /\ CacheConsulted /\ ~DiscoveryConsulted
    /\ Len(nodes) = 2

----------------------------------------------------------------------------
(* C7 *)

\* The build phase of this invocation found the image on this machine.
FoundLocally ==
    \E i \in CallsOf({"docker"}) : calls[i].site = "build" /\ calls[i].rc = 0

\* Every ssh check this invocation made found the image on its worker.
FoundOnWorkers == \A i \in CallsOf({"ssh"}) : calls[i].rc = 0

\* C7 as stated: when the build phase is run a second time in succession
\* without --force-build and finds the image on this machine, the build tool
\* is not invoked in that second run.
C7_SecondRunNeverBuilds ==
    (run >= 2 /\ prev_build /\ ~args.force_build /\ FoundLocally)
        => ~Ran({"build"})

\* C7, amended: when the build phase is run a second time in succession
\* without --force-build, finds the image on this machine and its remote
\* check finds it on every worker of the node list (there may be none), the
\* build tool is not invoked in that second run.
C7_SecondRunBuildsNothing ==
    (run >= 2 /\ prev_build /\ ~args.force_build /\ FoundLocally
        /\ FoundOnWorkers)
        => ~Ran({"build"})

\* A second --build-only run on three nodes: three checks, no build, exit 0.
C7_Witness ==
    /\ run = 2 /\ prev_build /\ Done
    /\ ~args.force_build /\ ~args.dry_run
    /\ FoundLocally
    /\ Cardinality(CallsOf({"ssh"})) = 2
    /\ ~Ran({"build"})
    /\ exit_code = 0

----------------------------------------------------------------------------
(* C8 *)

\* The build or download phase called its tool and the tool was absent or
\* exited non-zero.
PhaseToolFailed(c) ==
    /\ c.site \in {"build", "download"}
    /\ \/ c.tool \in {"build", "download"} /\ c.rc # 0
       \/ c.tool \in {"no_build_script", "no_download_script"}

\* C8: a build or download tool that is absent or exits non-zero in its
\* phase is the last thing the invocation does: it ends with status 1, the
\* tool is not called again, no later tool or launcher runs and no temporary
\* script is created.
C8_ToolFailureIsFatal ==
    \A i \in 1..Len(calls) :
        PhaseToolFailed(calls[i])
            => /\ i = Len(calls)
               /\ Done
               /\ exit_code = 1
               /\ tempFile = "none"
               /\ script = <<>>

\* The build succeeded and the download then exited non-zero.
C8_Witness ==
    /\ Done /\ exit_code = 1
    /\ Len(calls) > 0
    /\ calls[Len(calls)].tool = "download" /\ calls[Len(calls)].rc # 0
    /\ \E i \in CallsOf({"build"}) : calls[i].rc = 0

----------------------------------------------------------------------------
(* C9 *)

\* C9: the download tool runs at most once in an invocation, and only when
\* the recipe names a model, the download phase is requested
\* (--download-only, --setup or --force-download), --dry-run is absent and
\* either --force-download is given or the model was not found in the cache;
\* its copy targets are the workers of the resolved node list.
C9_DownloadOnlyWhenDue ==
    /\ Cardinality(CallsOf({"download"})) <= 1
    /\ \A i \in CallsOf({"download"}) :
          /\ Loaded
          /\ Truthy(recipe.model)
          /\ args.download_only \/ args.setup \/ args.force_download
          /\ ~args.dry_run
          /\ \/ args.force_download
             \/ \E j \in 1..(i - 1) :
                    calls[j].tool = "model_check" /\ calls[j].rc # 0
          /\ calls[i].targets = Workers

\* --setup on three nodes downloaded a missing model for the two workers.
C9_Witness ==
    /\ Done /\ ~args.force_download
    /\ \E i \in CallsOf({"download"}) :
          calls[i].rc = 0 /\ Len(calls[i].targets) = 2

----------------------------------------------------------------------------
(* C10 *)

\* The invocation got past the cluster-only check.
PastClusterCheck == Resolved /\ ~(ClusterOnlyRecipe /\ SoloMode)

\* C10: under --build-only or --download-only the run phase never executes:
\* the launcher is not invoked, no launch script is generated or written to
\* a temporary file, the image is not looked for at the start of a run phase
\* and the "Build now?" prompt is not shown; and when such an invocation has
\* reached its phases and no build or download tool failed, it ends with
\* status 0.
C10_PhaseOnlyNeverRuns ==
    (args.build_only \/ args.download_only)
        => /\ ~Ran({"launch"})
           /\ script = <<>>
           /\ tempFile = "none"
           /\ \A i \in 1..Len(calls) : calls[i].site \notin {"run", "build_now"}
           /\ (Done /\ PastClusterCheck
                 /\ \A i \in 1..Len(calls) : ~PhaseToolFailed(calls[i]))
                => exit_code = 0

\* --download-only on a recipe without a model: nothing to do, exit 0.
C10_Witness ==
    /\ Done /\ Loaded
    /\ args.download_only /\ ~args.build_only
    /\ ~Truthy(recipe.model)
    /\ PastClusterCheck
    /\ exit_code = 0

----------------------------------------------------------------------------
(* C11 *)

\* C11: a dictionary whose CLUSTER_NODES value contains a comma, written by
\* save_env_file and read back by load_env_file, comes back with the same
\* CLUSTER_NODES string, without the quotes of the file, and with every
\* other key it was saved with at its original value.  The values are
\* texts of addresses, commas and blanks.
C11_RoundTrip ==
    (pc = "loaded" /\ Contains(probe.env[K_NODES], ","))
        => /\ probe.loaded[K_NODES] = probe.env[K_NODES]
           /\ \A k \in DOMAIN probe.env :
                k \in DOMAIN probe.loaded /\ probe.loaded[k] = probe.env[k]

\* CLUSTER_NODES=a,b and LOCAL_IP with a blank at its end: both lines are
\* written in quotes, and both values are read back as they were.
C11_Witness ==
    /\ pc = "loaded"
    /\ probe.env[K_NODES] = <<"a", ",", "b">>
    /\ K_IP \in DOMAIN probe.env /\ probe.env[K_IP] = <<"b", " ">>
    /\ envFile.lines[3] = K_NODES \o <<"=", "\"", "a", ",", "b", "\"">>
    /\ probe.loaded = probe.env

----------------------------------------------------------------------------
(* C12 *)

\* The {placeholders} of the recipe's command.
C12_Placeholders ==
    UNION { { recipe.command[i][j].t :
                j \in { k \in 1..Len(recipe.command[i]) :
                          recipe.command[i][k].ph } } :
            i \in 1..Len(recipe.command) }

\* The names that have a value: the recipe's defaults and the effective
\* overrides (--port, --tensor-parallel or tensor_parallel = 1 in solo mode).
C12_Valued ==
    DOMAIN recipe.defaults
    \cup (IF args.port.some THEN {"port"} ELSE {})
    \cup (IF args.tensor_parallel.some \/ SoloMode
          THEN {"tensor_parallel"} ELSE {})

C12_Missing == C12_Placeholders \ C12_Valued # {}

\* C12: when main() generates the launch script and the command has a
\* placeholder whose name is in neither the recipe's defaults nor the
\* effective overrides, that step ends the invocation with status 1, with
\* no script produced, no temporary file and no launcher invoked; when every
\* placeholder has a value the step produces the script and does not fail.
C12_MissingPlaceholderStops ==
    [][ pc = "generate"
          => IF C12_Missing
             THEN /\ pc' = "done" /\ exit_code' = 1
                  /\ script' = <<>> /\ tempFile' = "none"
                  /\ calls' = calls /\ ~Ran({"launch"})
             ELSE /\ script' # <<>>
                  /\ \/ pc' = "mktemp"
                     \/ args.dry_run /\ pc' = "done" /\ exit_code' = 0 ]_vars

\* A cluster run of the recipe whose defaults give {port} only: the image
\* is found, {tensor_parallel} has no value, and the invocation ends with 1.
C12_Witness ==
    /\ Done /\ exit_code = 1
    /\ Resolved /\ ~SoloMode
    /\ C12_Missing
    /\ calls # <<>>
    /\ calls[Len(calls)].tool = "docker" /\ calls[Len(calls)].site = "run"
    /\ calls[Len(calls)].rc = 0
    /\ script = <<>> /\ tempFile = "none"

----------------------------------------------------------------------------
(* C13 *)

\* The command after its placeholders are replaced by their values.
C13_Substituted ==
    Format(recipe.command,
           Merge(recipe.defaults, Overrides(args, probe.solo)))

\* The line contains '--distributed-executor-backend'.
C13_HasFlag(line) ==
    \E j \in 1..Len(line) :
        line[j] \in {"--distributed-executor-backend",
                     "--distributed-executor-backend=ray"}

\* The lines without the flag, in their order.
RECURSIVE C13_Kept(_)
C13_Kept(lines) ==
    IF lines = <<>> THEN <<>>
    ELSE IF C13_HasFlag(Head(lines)) THEN C13_Kept(Tail(lines))
    ELSE <<Head(lines)>> \o C13_Kept(Tail(lines))

\* The command as the script has it: the lines after "# Run the model", up
\* to the empty line that ends the script.
C13_Emitted ==
    LET i == CHOOSE k \in 1..Len(script) : script[k] = <<"# Run the model">>
    IN  SubSeq(script, i + 1, Len(script) - 1)

\* Lines without the blank lines before the first and after the last word.
C13_Trim(lines) == RStripLines(LStripLines(lines))

\* C13: in solo mode the command generate_launch_script emits is the
\* substituted command without the lines that contain
\* '--distributed-executor-backend': each such line is gone, every other
\* line is there, in the same order; when not in solo mode every line is
\* there.  Lines are compared from the first to the last one that is not
\* blank.
C13_SoloDropsDistLines ==
    pc = "generated"
        => C13_Trim(C13_Emitted)
             = C13_Trim(IF probe.solo THEN C13_Kept(C13_Substituted)
                        ELSE C13_Substituted)

\* Solo mode, three lines, the flag in the second only: the script has the
\* first and the third.
C13_Witness ==
    /\ pc = "generated" /\ probe.solo
    /\ Len(recipe.command) = 3
    /\ C13_HasFlag(C13_Substituted[2])
    /\ C13_Emitted = <<C13_Substituted[1], C13_Substituted[3]>>
    /\ C13_Substituted[1] # C13_Substituted[3]

----------------------------------------------------------------------------
(* C14 *)

C14_RequiredFields == {"name", "recipe_version", "container", "command"}

\* The recipe file was read and lacks a required field.
C14_Lacking ==
    parsed # NoRecipe /\ C14_RequiredFields \ DOMAIN parsed # {}

\* C14: when the recipe file lacks one or more of name, recipe_version,
\* container and command, load_recipe ends the invocation with status 1
\* after reporting a field the file lacks, and that report is the last
\* thing the invocation does: no recipe is returned, no nodes are resolved,
\* no phase runs and nothing is called at any later place of main().  A
\* file with all four fields is loaded and no such report is made.
C14_MissingFieldStops ==
    /\ C14_Lacking
         => /\ Done /\ exit_code = 1
            /\ ~Loaded
            /\ calls # <<>>
            /\ calls[Len(calls)].tool = "missing_field"
            /\ calls[Len(calls)].targets[1] \in C14_RequiredFields \ DOMAIN parsed
            /\ \A i \in 1..Len(calls) :
                 calls[i].site \in {"flag", "show_env", "load_recipe"}
            /\ nodes = <<>> /\ ~nodes_from_env
            /\ script = <<>> /\ tempFile = "none"
    /\ (parsed # NoRecipe /\ ~C14_Lacking)
         => /\ Loaded
            /\ ~Ran({"missing_field"})

\* A file with neither recipe_version nor command, after a --discover that
\* found nodes: the first of the two is reported and the invocation ends.
C14_Witness ==
    /\ Done /\ exit_code = 1
    /\ parsed # NoRecipe
    /\ C14_RequiredFields \ DOMAIN parsed = {"recipe_version", "command"}
    /\ calls[Len(calls)].tool = "missing_field"
    /\ calls[Len(calls)].targets = <<"recipe_version">>
    /\ Ran({"bash"})

----------------------------------------------------------------------------
(* C15 *)

\* The value load_recipe is said to give an optional field the file lacks.
C15_Default ==
    [description |-> "", model |-> None, mods |-> <<>>,
     defaults |-> [k \in {} |-> ""], env |-> <<>>, build_args |-> <<>>,
     cluster_only |-> FALSE]

\* C15: the recipe load_recipe returns has every optional field:
\* description, model, mods, defaults, env, build_args and cluster_only,
\* each at the file's value, or at its default (empty string, None, empty
\* list, empty mapping, empty mapping, empty list, false) when the file
\* does not give it.
C15_OptionalFieldsPopulated ==
    Loaded
        => \A f \in DOMAIN C15_Default :
             /\ f \in DOMAIN recipe
             /\ recipe[f] = IF f \in DOMAIN parsed THEN parsed[f]
                            ELSE C15_Default[f]

----------------------------------------------------------------------------
(* C16 *)

\* The invocation has been through a build phase that was asked for and is
\* not a dry run.
C16_BuildPhaseRan ==
    /\ PastClusterCheck
    /\ pc \notin {"cluster_check", "build"}
    /\ ~args.dry_run
    /\ (args.build_only \/ args.setup \/ args.force_build)

C16_IsLocalCheck(c) == c.site = "build" /\ c.tool = "docker"

C16_IsWorkerCheck(c) == c.site = "build" /\ c.tool = "ssh"

C16_IsWorkerMiss(c) == C16_IsWorkerCheck(c) /\ c.rc # 0

\* A call of build_image: it runs the build tool, or reports it absent.
C16_IsBuild(c) ==
    c.site = "build" /\ c.tool \in {"build", "no_build_script"}

C16_Hosts(cs) == [i \in 1..Len(cs) |-> cs[i].targets[1]]

\* C16: in a build phase that is not a dry run the image is looked for
\* locally once.  Without --force-build: if it is missing, build_image is
\* called once with all workers as copy targets and no worker is checked;
\* if it is present, each worker is checked remotely, in node-list order,
\* and build_image is called once with exactly the workers that lack the
\* image, in that order, or not at all when none lacks it or there are no
\* workers.  With --force-build it is called once with all workers and no
\* worker is checked.
C16_BuildsForMissingWorkers ==
    C16_BuildPhaseRan
        => LET local  == SelectSeq(calls, C16_IsLocalCheck)
               checks == SelectSeq(calls, C16_IsWorkerCheck)
               misses == SelectSeq(calls, C16_IsWorkerMiss)
               builds == SelectSeq(calls, C16_IsBuild)
           IN  /\ Len(local) = 1
               /\ IF args.force_build \/ local[1].rc # 0
                  THEN /\ Len(builds) = 1
                       /\ builds[1].targets = Workers
                       /\ checks = <<>>
                  ELSE /\ C16_Hosts(checks) = Workers
                       /\ Len(builds) = IF misses = <<>> THEN 0 ELSE 1
                       /\ misses # <<>>
                            => builds[1].targets = C16_Hosts(misses)

\* --setup on three nodes with the image present locally and on the first
\* worker only: the build tool runs once, for the second worker.
C16_Witness ==
    /\ Done /\ C16_BuildPhaseRan
    /\ ~args.force_build
    /\ Len(Workers) = 2
    /\ SelectSeq(calls, C16_IsLocalCheck)[1].rc = 0
    /\ C16_Hosts(SelectSeq(calls, C16_IsWorkerMiss)) = <<Workers[2]>>
    /\ SelectSeq(calls, C16_IsBuild)[1].tool = "build"
    /\ SelectSeq(calls, C16_IsBuild)[1].targets = <<Workers[2]>>

----------------------------------------------------------------------------
(* C17 *)

C17_IsImageCheck(c) == c.site = "run" /\ c.tool = "docker"

C17_IsPrompt(c) == c.site = "build_now" /\ c.tool = "input"

C17_IsBuild(c) == c.site = "run" /\ c.tool \in {"build", "no_build_script"}

\* The image was found at the start of the run phase, or it was missing,
\* the user answered 'y' and the build made on that answer succeeded.
C17_Cleared ==
    LET check  == SelectSeq(calls, C17_IsImageCheck)
        prompt == SelectSeq(calls, C17_IsPrompt)
        build  == SelectSeq(calls, C17_IsBuild)
    IN  /\ Len(check) = 1
        /\ \/ check[1].rc = 0 /\ prompt = <<>> /\ build = <<>>
           \/ /\ check[1].rc # 0
              /\ Len(prompt) = 1 /\ prompt[1].targets = <<"y">>
              /\ Len(build) = 1
              /\ build[1].tool = "build" /\ build[1].rc = 0

\* C17: without --setup and --dry-run, a script is generated, a temporary
\* file made or the launcher invoked only when the image check at the start
\* of the run phase succeeded, or it failed, the user answered 'y' to
\* "Build now?" and the build made then succeeded; once the check has been
\* made and neither is so (another answer, on which nothing is built, or a
\* failed build), the invocation has ended with status 1 without temporary
\* script or launcher.  With --setup or --dry-run there is no such check,
\* prompt or build.
C17_LaunchNeedsImage ==
    LET check  == SelectSeq(calls, C17_IsImageCheck)
        prompt == SelectSeq(calls, C17_IsPrompt)
        build  == SelectSeq(calls, C17_IsBuild)
    IN  IF args.setup \/ args.dry_run
        THEN check = <<>> /\ prompt = <<>> /\ build = <<>>
        ELSE /\ (Ran({"launch"}) \/ script # <<>> \/ tempFile # "none"
                   \/ pc \in {"generate", "mktemp", "write", "chmod",
                              "launch", "finally"})
                  => C17_Cleared
             /\ (check # <<>> /\ ~C17_Cleared)
                  => /\ Done /\ exit_code = 1
                     /\ script = <<>> /\ tempFile = "none"
                     /\ ~Ran({"launch"})
                     /\ Len(check) = 1 /\ check[1].rc # 0
                     /\ Len(prompt) = 1
                     /\ prompt[1].targets # <<"y">> => build = <<>>

\* The image is missing, the user answers 'y', the build succeeds and the
\* launcher runs.
C17_Witness ==
    /\ Done /\ ~args.setup /\ ~args.dry_run
    /\ Ran({"launch"})
    /\ Len(SelectSeq(calls, C17_IsPrompt)) = 1
    /\ SelectSeq(calls, C17_IsImageCheck)[1].rc # 0
    /\ SelectSeq(calls, C17_IsPrompt)[1].targets = <<"y">>
    /\ SelectSeq(calls, C17_IsBuild)[1].rc = 0

----------------------------------------------------------------------------
(* C18 *)

C18_IsSavePrompt(c) == c.tool = "input" /\ c.site = "save"

C18_Saves(cs) == Cardinality({ i \in 1..Len(cs) : cs[i].tool = "save_env" })

\* A step that writes the .env file: the file differs, or one more write
\* is recorded.
C18_Writes == envFile' # envFile \/ C18_Saves(calls') > C18_Saves(calls)

\* C18: the .env file is written only (1) by the --discover branch, when
\* discovery returned a configuration, without a prompt, or (2) in node
\* resolution, when auto-discovery returned a configuration with a
\* non-empty node list and the user answered the save prompt with "", "y"
\* or "yes"; every other step leaves the file as it is.  The save prompt
\* is shown at most once in an invocation.
C18_CacheWrittenOnlyOnDiscovery ==
    /\ [](Len(SelectSeq(calls, C18_IsSavePrompt)) <= 1)
    /\ [][ C18_Writes
             => LET n == Len(calls')
                IN  /\ n > Len(calls)
                    /\ calls'[n].tool = "save_env"
                    /\ disc.some
                    /\ \/ /\ calls'[n].site = "flag"
                          /\ args.discover /\ pc = "discover_ret"
                          /\ n = Len(calls) + 1
                       \/ /\ calls'[n].site = "resolve"
                          /\ pc = "resolve_ret"
                          /\ nodes' # <<>> /\ nodes_from_env'
                          /\ n = Len(calls) + 2
                          /\ C18_IsSavePrompt(calls'[n - 1])
                          /\ calls'[n - 1].targets[1] \in {"", "y", "yes"}
       ]_vars

\* Auto-discovery in node resolution found nodes, the user pressed return
\* at the save prompt, and the file was written.
C18_Witness ==
    /\ Len(calls) >= 4
    /\ calls[Len(calls)].tool = "save_env"
    /\ calls[Len(calls)].site = "resolve"
    /\ calls[Len(calls) - 1].targets = <<"">>
    /\ envFile.exists
    /\ load_env_file(envFile)[K_NODES] = <<"h", ",", "w">>

----------------------------------------------------------------------------
(* C19 *)

\* The candidates whose prompt was answered "", "y" or "yes", in the order
\* they were offered.
RECURSIVE C19_Accepted(_, _)
C19_Accepted(candidates, answers) ==
    IF candidates = <<>> \/ answers = <<>> THEN <<>>
    ELSE (IF Head(answers) \in {"", "y", "yes"} THEN <<Head(candidates)>>
          ELSE <<>>)
         \o C19_Accepted(Tail(candidates), Tail(answers))

\* run_autodiscover offered more than one candidate and has returned.
C19_Selected == Len(disc.all) > 1 /\ pc # "select"

\* It returned no configuration: every candidate was declined.
C19_Aborted == C19_Selected /\ ~disc.some

\* C19: when auto-discovery offers more than one candidate, it returns no
\* configuration if the user declines every one of them, and otherwise a
\* configuration whose node list is exactly the accepted candidates in
\* their original order.  After a return without configuration no nodes
\* are resolved from the discovery, the save prompt is not shown and the
\* .env file is not written; under --discover the invocation ends with
\* status 1 without loading a recipe.
C19_SelectionDecidesNodes ==
    /\ (C19_Selected /\ pc \in {"discover_ret", "resolve_ret"})
         => /\ Len(disc.answers) = Len(disc.all)
            /\ IF C19_Accepted(disc.all, disc.answers) = <<>>
               THEN ~disc.some
               ELSE /\ disc.some
                    /\ parse_nodes(Get(disc.env, K_NODES))
                         = C19_Accepted(disc.all, disc.answers)
    /\ (C19_Aborted /\ disc.caller = "flag")
         => /\ pc = "discover_ret" \/ (Done /\ exit_code = 1)
            /\ ~Loaded
            /\ ~Ran({"save_env"})
    /\ (C19_Aborted /\ disc.caller = "resolve")
         => /\ nodes = <<>> /\ ~nodes_from_env
            /\ \A i \in 1..Len(calls) :
                 calls[i].site \notin {"save"}
                 /\ ~(calls[i].tool = "save_env" /\ calls[i].site = "resolve")

\* --discover, two candidates, both declined: exit 1, nothing saved.
C19_Witness ==
    /\ Done /\ exit_code = 1
    /\ args.discover
    /\ C19_Aborted /\ disc.caller = "flag"
    /\ Len(disc.all) = 2

----------------------------------------------------------------------------
(* C20 *)

\* Calls of build_image made by the build phase.
C20_PhaseBuilds ==
    { j \in 1..Len(calls) :
        calls[j].site = "build"
        /\ calls[j].tool \in {"build", "no_build_script"} }

\* C20: the launcher is invoked at most once in an invocation and is its
\* last external action: after it there is no build, download, image
\* check, discovery, prompt or access to the .env file, and the file is not
\* written.  When the build phase's build tool and the download tool both
\* run, every run of the download tool comes after the build phase's build
\* has completed with success, so the order is build, download, launch.
C20_LauncherLast ==
    /\ [](/\ Cardinality(CallsOf({"launch"})) <= 1
          /\ \A k \in CallsOf({"launch"}) : k = Len(calls)
          /\ \A i \in CallsOf({"download"}) : \A j \in C20_PhaseBuilds :
               j < i /\ calls[j].tool = "build" /\ calls[j].rc = 0)
    /\ [][Ran({"launch"}) => envFile' = envFile]_vars

\* --setup with a model to fetch: build, then download, then launch.
C20_Witness ==
    /\ Done
    /\ \E j \in C20_PhaseBuilds : \E i \in CallsOf({"download"}) :
         \E k \in CallsOf({"launch"}) : j < i /\ i < k

----------------------------------------------------------------------------
(* C21 *)

\* run_autodiscover, called by node resolution, has returned without a node
\* list: it failed or every candidate was declined (no configuration), or
\* its configuration names no node.
C21_GaveNothing ==
    /\ disc.caller = "resolve"
    /\ pc \notin {"autodiscover", "select"}
    /\ ~disc.some \/ parse_nodes(Get(disc.env, K_NODES)) = <<>>

\* C21: when the auto-discovery of node resolution fails, is aborted by the
\* user, or returns no node list, main() goes on to the cluster-only check
\* with an empty node list; there the invocation ends with status 1 if the
\* recipe is cluster_only and goes on to its phases otherwise; and the
\* launcher, whenever it is invoked, gets --solo and no -n.
C21_FailedDiscoveryRunsSolo ==
    /\ [](C21_GaveNothing
            => /\ pc # "resolve_ret" => nodes = <<>>
               /\ \A k \in CallsOf({"launch"}) :
                    calls[k].solo /\ calls[k].targets = <<>>)
    /\ [][ /\ (pc = "resolve_ret" /\ C21_GaveNothing)
              => pc' = "cluster_check" /\ nodes' = <<>>
           /\ (pc = "cluster_check" /\ C21_GaveNothing)
              => IF ClusterOnlyRecipe
                 THEN pc' = "done" /\ exit_code' = 1 /\ calls' = calls
                 ELSE pc' = "build" ]_vars

\* Two candidates, both declined in node resolution: the run goes on and
\* the launcher is started with --solo and without -n.
C21_Witness ==
    /\ Done /\ exit_code = 0
    /\ C21_GaveNothing /\ ~disc.some /\ Len(disc.all) = 2
    /\ \E k \in CallsOf({"launch"}) :
         calls[k].solo /\ calls[k].targets = <<>>

----------------------------------------------------------------------------
(* C22 *)

\* Runs of the build and download tools, and the calls that found the tool
\* absent, with the copy targets they were given.
C22_ToolRuns == CallsOf({"build", "download"})

C22_ToolCalls ==
    CallsOf({"build", "download", "no_build_script", "no_download_script"})

\* A line of the generated script has the distributed-executor flag.
C22_ScriptHasDistFlag ==
    \E i \in 1..Len(script) : \E j \in 1..Len(script[i]) :
        script[i][j] = "--distributed-executor-backend"

\* C22 as stated: with more than one node every run of the build and
\* download tools gets exactly the nodes after the first as copy targets;
\* with at most one node no copy target is passed and no worker is checked.
C22_CopyTargetsAreAllWorkers ==
    Resolved
        => IF Len(nodes) > 1
           THEN \A i \in C22_ToolRuns : calls[i].targets = Workers
           ELSE /\ \A i \in C22_ToolRuns : calls[i].targets = <<>>
                /\ ~Ran({"ssh"})

\* C22, amended: the copy targets depend on the node list only, not on
\* --solo.  With more than one node the download tool, and the build tool
\* when the image is missing locally, forced or built on demand, get
\* exactly the nodes after the first; when the image is present locally the
\* remote checks are made on exactly those nodes, in order, and a build gets
\* the ones that lack the image; under --solo the run is in solo mode (the
\* script has no distributed-executor line) and the launcher gets --solo and
\* -n with the full node list.  With at most one node no copy target is
\* passed and no worker is checked.
C22_CopyTargetsFollowNodeList ==
    Resolved
        => LET checks == SelectSeq(calls, C16_IsWorkerCheck)
               misses == SelectSeq(calls, C16_IsWorkerMiss)
           IN  IF Len(nodes) > 1
               THEN /\ \A i \in C22_ToolCalls :
                         \/ calls[i].targets = Workers
                         \/ /\ calls[i].site = "build"
                            /\ calls[i].tool \in {"build", "no_build_script"}
                            /\ misses # <<>>
                            /\ calls[i].targets = C16_Hosts(misses)
                    /\ checks # <<>> => C16_Hosts(checks) = Workers
                    /\ \A k \in CallsOf({"launch"}) :
                         /\ calls[k].targets = nodes
                         /\ calls[k].solo = args.solo
                    /\ args.solo => ~C22_ScriptHasDistFlag
               ELSE /\ \A i \in C22_ToolCalls : calls[i].targets = <<>>
                    /\ checks = <<>> /\ ~Ran({"ssh"})

\* --solo with three nodes: both workers are checked remotely, the download
\* is copied to both, and the launcher gets --solo and all three nodes.
C22_Witness ==
    /\ Done /\ Resolved
    /\ args.solo /\ Len(nodes) = 3
    /\ Len(SelectSeq(calls, C16_IsWorkerCheck)) = 2
    /\ \E i \in CallsOf({"download"}) : calls[i].targets = Workers
    /\ \E k \in CallsOf({"launch"}) :
         calls[k].solo /\ calls[k].targets = nodes

----------------------------------------------------------------------------
(* C23 *)

\* What the command line gives for a placeholder, if anything.
C23_Override(p) ==
    IF p = "port" THEN args.port
    ELSE IF p = "tensor_parallel" THEN args.tensor_parallel
    ELSE None

\* The value the claim gives placeholder p.
C23_Value(p) ==
    IF C23_Override(p).some THEN C23_Override(p).s
    ELSE IF p = "tensor_parallel" /\ SoloMode THEN "1"
    ELSE recipe.defaults[p]

\* The command with every placeholder replaced by that value.
C23_Expected ==
    [i \in 1..Len(recipe.command) |->
        [j \in 1..Len(recipe.command[i]) |->
            IF recipe.command[i][j].ph THEN C23_Value(recipe.command[i][j].t)
            ELSE recipe.command[i][j].t]]

\* C23: in the generated script each placeholder of the command stands
\* replaced by the command-line override when one was given and by the
\* recipe's default otherwise, except that in solo mode (--solo, or fewer
\* than two nodes) without --tensor-parallel {tensor_parallel} is replaced
\* by 1, whatever the recipe's defaults say; a --tensor-parallel value is
\* used as given, in solo mode too.  (In solo mode the lines with the
\* distributed-executor flag are not in the script.)
C23_OverrideThenDefault ==
    pc = "generated"
        => C13_Trim(C13_Emitted)
             = C13_Trim(IF SoloMode THEN C13_Kept(C23_Expected)
                        ELSE C23_Expected)

\* No node, no --tensor-parallel, defaults with tensor_parallel = 2: the
\* script has --tensor-parallel-size 1.
C23_Witness ==
    /\ pc = "generated"
    /\ nodes = <<>> /\ ~args.solo /\ ~args.tensor_parallel.some
    /\ "tensor_parallel" \in DOMAIN recipe.defaults
    /\ recipe.defaults.tensor_parallel = "2"
    /\ args.port.some
    /\ C13_Emitted = << <<"vllm", "serve", "--port", "9000", "\\">>,
                        <<"--tensor-parallel-size", "1", "\\">> >>

====
